---- MODULE Spec2Model ----
(***************************************************************************)
(* State-machine model of the Inshorts harvester: fetch_content (browser   *)
(* pagination), parse_content (field extraction), main (orchestration) and *)
(* DatabaseManagerSettings (storage gateway).                              *)
(*                                                                         *)
(* Conventions                                                             *)
(*   - an optional value is a tuple of length 0 (None) or 1 (<<v>>);       *)
(*   - a string is a sequence of one-character strings;                    *)
(*   - an exception is named by its Python class.                          *)
(***************************************************************************)
EXTENDS Integers, Sequences, FiniteSets, TLC

VARIABLES
    pc,            \* position of the running coroutine
    category,      \* main: the key typed at the prompt
    num_clicks,    \* requested number of "load more" clicks
    playwright,    \* "none" | "active" | "stopped"  (async with async_playwright())
    browser,       \* "none" | "open" | "closed"     (the launched chromium)
    launches,      \* number of browsers launched so far
    control,       \* page: is the "load more" control in the DOM right now
    click,         \* fetch_content: loop variable of `for click in range(num_clicks)`
    activations,   \* page: number of clicks the page has received
    presentCount,  \* number of loop iterations at which the control was present
    missed,        \* iteration at which the control was found absent, 0 if none
    fault,         \* exception a browser primitive raised, "none" if none
    content,       \* fetch_content: optional document captured by page.content()
    html_content,  \* optional document returned by fetch_content
    exc,           \* exception propagating out of the run, "none" if none
    detail_data,   \* optional dictionary returned by parse_content
    df,            \* rows of the DataFrame built by main
    exported,      \* set of export files written ("csv", "json")
    session,       \* "none" | "open" | "closed"  (gateway's ORM session)
    pending,       \* objects added to the session and not yet committed
    table,         \* committed rows of the stored table
    insertCalls,   \* number of insert_data invocations
    commits,       \* number of session.commit() calls issued
    batches,       \* per insert_data call: how many records it was given, did it return
    before,        \* the table as it was before the latest gateway call
    last,          \* the latest gateway call and how it ended
    readResult     \* rows returned by the latest read_data

vars == <<pc, category, num_clicks, playwright, browser, launches, control, click,
          activations, presentCount, missed, fault, content, html_content, exc, detail_data, df,
          exported, session, pending, table, insertCalls, commits, batches, before,
          last, readResult>>

mainVars == <<category, num_clicks>>
pageVars == <<control, click, activations, presentCount, missed>>
browserVars == <<playwright, browser, launches, pageVars, fault, content>>
dataVars == <<detail_data, df, exported>>
dbVars == <<session, pending, table, insertCalls, commits, batches, before, last,
           readResult>>

----------------------------------------------------------------------------
(* Bounds of the model *)

MaxClicks == 3
MaxContainers == 2
MaxPageContainers == 1
MaxBatch == 2
MaxCalls == 3

(* Program constant: main always asks for ten clicks *)
NumClicks == 10

----------------------------------------------------------------------------
(* Optional values *)

None == <<>>
Some(v) == <<v>>
IsNone(o) == Len(o) = 0
Get(o) == o[1]

----------------------------------------------------------------------------
(* Strings *)

Whitespace == {" "}

RECURSIVE LStrip(_)
LStrip(s) ==
    IF Len(s) = 0 THEN s
    ELSE IF s[1] \in Whitespace THEN LStrip(Tail(s)) ELSE s

RECURSIVE RStrip(_)
RStrip(s) ==
    IF Len(s) = 0 THEN s
    ELSE IF s[Len(s)] \in Whitespace THEN RStrip(SubSeq(s, 1, Len(s) - 1)) ELSE s

(* str.strip() as used by get_text(strip=True) *)
Strip(s) == RStrip(LStrip(s))

(* str.split(sep): the segments between occurrences of sep, at least one *)
RECURSIVE Split(_, _)
Split(s, sep) ==
    IF \A i \in 1..Len(s) : s[i] # sep THEN <<s>>
    ELSE LET i == CHOOSE j \in 1..Len(s) :
                      s[j] = sep /\ \A k \in 1..(j - 1) : s[k] # sep
         IN  <<SubSeq(s, 1, i - 1)>> \o Split(SubSeq(s, i + 1, Len(s)), sep)

(* python truthiness of a str *)
Truthy(s) == Len(s) > 0

----------------------------------------------------------------------------
(* Documents: the markup parse_content looks at *)

Tok(i) == ToString(i)

(* text nodes an article container i may hold *)
BlankText == <<" ">>
TitleText(i) == <<" ", "t", Tok(i), " ">>
DateText(i) == <<"d", Tok(i)>>
DescriptionText(i) == <<"x", Tok(i), " ">>
LinkTarget(i) == <<"u", Tok(i)>>

AbsentNode == [present |-> FALSE, text |-> <<>>]
Node(t) == [present |-> TRUE, text |-> t]

NoAnchor == [present |-> FALSE, hasHref |-> FALSE, href |-> <<>>]
BareAnchor == [present |-> TRUE, hasHref |-> FALSE, href |-> <<>>]
Anchor(h) == [present |-> TRUE, hasHref |-> TRUE, href |-> h]

(* what one article container may hold: its title, date and description  *)
(* node and its anchor                                                    *)
Shapes ==
    [title : {"blank", "text"},
     date : {"absent", "blank", "text"},
     description : {"blank", "text"},
     anchor : {"none", "bare", "link"}]

TextNode(kind, text) ==
    IF kind = "absent" THEN AbsentNode
    ELSE IF kind = "blank" THEN Node(BlankText)
    ELSE Node(text)

AnchorNode(kind, target) ==
    IF kind = "none" THEN NoAnchor
    ELSE IF kind = "bare" THEN BareAnchor
    ELSE Anchor(target)

(* the i-th article container of a document *)
Container(i, shape) ==
    [title |-> TextNode(shape.title, TitleText(i)),
     date |-> TextNode(shape.date, DateText(i)),
     description |-> TextNode(shape.description, DescriptionText(i)),
     anchor |-> AnchorNode(shape.anchor, LinkTarget(i))]

MarkerHrefs == {<<"/", "e", "/", "n">>, <<"/", "s", "/">>}
Markers == {NoAnchor, BareAnchor} \cup {Anchor(h) : h \in MarkerHrefs}

Document(marker, shapes) ==
    [marker |-> marker,
     containers |-> [i \in 1..Len(shapes) |-> Container(i, shapes[i])]]

(* v is a document of at most k article containers *)
IsDocumentUpTo(v, k) ==
    \E n \in 0..k : \E marker \in Markers : \E shapes \in [1..n -> Shapes] :
        v = Some(Document(marker, shapes))

----------------------------------------------------------------------------
(* parse_content *)

Returned(v) == [raised |-> "none", value |-> v]
Raised(e) == [raised |-> e, value |-> None]

(* soup.select(...): the matching nodes of one field, in document order *)
RECURSIVE SelectNodes(_, _)
SelectNodes(containers, field) ==
    IF Len(containers) = 0 THEN <<>>
    ELSE LET node == containers[1][field]
         IN  (IF node.present THEN <<node>> ELSE <<>>)
                 \o SelectNodes(Tail(containers), field)

(* node.get_text(strip=True) *)
GetText(node) == Strip(node.text)

(* [n.get_text(strip=True) for n in nodes if n.get_text(strip=True)] *)
NonBlankTexts(nodes) ==
    SelectSeq([i \in 1..Len(nodes) |-> GetText(nodes[i])], Truthy)

(* mutant: the first path segment is taken instead of the last *)
CategoryOfFirstSegment(doc) ==
    IF ~doc.marker.present THEN Raised("AttributeError")
    ELSE IF ~doc.marker.hasHref THEN Raised("AttributeError")
    ELSE Returned(Split(doc.marker.href, "/")[1])

(* select_one(...) then .get("href").split("/")[-1] *)
CategoryOf(doc) ==
    IF ~doc.marker.present THEN Raised("AttributeError")
    ELSE IF ~doc.marker.hasHref THEN Raised("AttributeError")
    ELSE LET parts == Split(doc.marker.href, "/")
         IN  Returned(parts[Len(parts)])

NaN == <<<<"nan">>, <<>>>>

(* point.select_one(...)["href"] if point.select_one(...) else None *)
UrlLookup(point) ==
    IF ~point.anchor.present THEN Returned(None)
    ELSE IF ~point.anchor.hasHref THEN Raised("KeyError")
    ELSE Returned(Some(point.anchor.href))

(* try: ... except AttributeError: urls = np.nan *)
UrlOf(point) ==
    LET r == UrlLookup(point)
    IN  IF r.raised = "AttributeError" THEN Returned(NaN) ELSE r

(* for point in start_point: ... detail_data["urls"].append(urls) *)
RECURSIVE UrlLoop(_, _)
UrlLoop(points, acc) ==
    IF Len(points) = 0 THEN Returned(acc)
    ELSE LET r == UrlOf(points[1])
         IN  IF r.raised # "none" THEN r
             ELSE UrlLoop(Tail(points), Append(acc, r.value))

(* for _ in range(len(detail_data["titles"])): ...append(category) *)
Repeat(v, n) == [i \in 1..n |-> v]

(* the body of the try block *)
ParseBody(html) ==
    IF IsNone(html) THEN Raised("TypeError")
    ELSE LET doc == Get(html)
             cat == CategoryOf(doc)
             titles == NonBlankTexts(SelectNodes(doc.containers, "title"))
             dates == NonBlankTexts(SelectNodes(doc.containers, "date"))
             descs == NonBlankTexts(SelectNodes(doc.containers, "description"))
             urls == UrlLoop(doc.containers, <<>>)
         IN  IF cat.raised # "none" THEN cat
             ELSE IF urls.raised # "none" THEN urls
             ELSE Returned(Some([category |-> Repeat(cat.value, Len(titles)),
                                 titles |-> titles,
                                 date |-> dates,
                                 descriptions |-> descs,
                                 urls |-> urls.value]))

(* mutant: the handlers let the exception through *)
ParseHandlerReraises(e) == Raised(e)

(* except AttributeError / except Exception: print, fall through to return None *)
ParseHandler(e) == Returned(None)

parse_content(html) ==
    LET r == ParseBody(html)
    IN  IF r.raised # "none" THEN ParseHandler(r.raised) ELSE r

----------------------------------------------------------------------------
(* fetch_content *)

(* what the browser primitives raise: a lookup of a selector that is not in *)
(* the page times out; any primitive may fail with a driver error           *)
BrowserFaults == {"Error"}
SelectorFaults(present) == IF present THEN BrowserFaults ELSE {"TimeoutError"}

(* mutant: the loop runs once more than asked *)
LoopContinuesInclusive(k, n) == k <= n

(* `for click in range(num_clicks)`: is there an iteration k+1 *)
LoopContinues(k, n) == k < n

(* mutant: past the last iteration the coroutine awaits an event nothing sets *)
AfterLoopHangs(k, n) == IF LoopContinues(k, n) THEN "click" ELSE "sleep"

(* where the coroutine goes next: another iteration, or page.content() *)
AfterLoop(k, n) == IF LoopContinues(k, n) THEN "click" ELSE "content"

(* except AttributeError: print / except Exception: raise, around the loop *)
InnerHandler(e) == IF e = "AttributeError" THEN "swallow" ELSE "raise"

(* mutant: the outer handler prints and does not raise again *)
OuterHandlerSwallows(e) == "return"

(* except Exception: print; raise, around the whole body *)
OuterHandler(e) == "raise"

(* mutant: the block is left without releasing the browser *)
ExitPlaywrightLeaks(b) == b

(* leaving `async with async_playwright()`: the driver stops and takes the *)
(* browsers it launched with it                                            *)
ExitPlaywright(b) == IF b = "open" THEN "closed" ELSE b

(* an exception e leaves the async with block and reaches the outer handler *)
FetchRaise(e) ==
    /\ playwright' = "stopped"
    /\ browser' = ExitPlaywright(browser)
    /\ content' = None
    /\ fault' = e
    /\ IF OuterHandler(e) = "raise"
         THEN /\ pc' = "raised"
              /\ exc' = e
              /\ html_content' = None
         ELSE /\ pc' = "fetched"
              /\ exc' = exc
              /\ html_content' = None

(* async with async_playwright() as p: browser = await p.chromium.launch() *)
Launch ==
    /\ pc = "launch"
    /\ \/ /\ playwright' = "active"
          /\ browser' = "open"
          /\ launches' = launches + 1
          /\ pc' = "new_page"
          /\ UNCHANGED <<fault, content, html_content, exc>>
       \/ /\ \E e \in BrowserFaults : FetchRaise(e)
          /\ UNCHANGED launches
    /\ UNCHANGED <<mainVars, pageVars, dataVars, dbVars>>

(* page = await browser.new_page() *)
NewPage ==
    /\ pc = "new_page"
    /\ \/ /\ pc' = "goto"
          /\ UNCHANGED <<playwright, browser, fault, content, html_content, exc>>
       \/ \E e \in BrowserFaults : FetchRaise(e)
    /\ UNCHANGED <<mainVars, launches, pageVars, dataVars, dbVars>>

(* await page.goto(url): the page that loads may or may not show the control *)
Goto ==
    /\ pc = "goto"
    /\ \/ /\ pc' = "wait"
          /\ control' \in BOOLEAN
          /\ UNCHANGED <<playwright, browser, fault, content, html_content, exc>>
       \/ /\ \E e \in BrowserFaults : FetchRaise(e)
          /\ UNCHANGED control
    /\ UNCHANGED <<mainVars, launches, click, activations, presentCount, missed, dataVars, dbVars>>

(* await page.wait_for_selector("div.QMXJlc3R5MMJjDGSV4Jd"), then the loop begins *)
WaitForSelector ==
    /\ pc = "wait"
    /\ \/ /\ control
          /\ pc' = AfterLoop(0, num_clicks)
          /\ click' = 0
          /\ UNCHANGED <<playwright, browser, fault, content, html_content, exc>>
       \/ /\ \E e \in SelectorFaults(control) : FetchRaise(e)
          /\ UNCHANGED click
    /\ UNCHANGED <<mainVars, launches, control, activations, presentCount, missed, dataVars, dbVars>>

(* one iteration: await page.click(...); print; await asyncio.sleep(1) *)
Click ==
    /\ pc = "click"
    /\ presentCount' = presentCount + (IF control THEN 1 ELSE 0)
    /\ missed' = IF control THEN missed ELSE click + 1
    /\ \/ /\ control
          /\ activations' = activations + 1
          /\ click' = click + 1
          /\ control' \in BOOLEAN
          /\ pc' = AfterLoop(click + 1, num_clicks)
          /\ UNCHANGED <<playwright, browser, fault, content, html_content, exc>>
       \/ /\ \E e \in SelectorFaults(control) :
                IF InnerHandler(e) = "swallow"
                  THEN /\ pc' = "content"
                       /\ fault' = e
                       /\ UNCHANGED <<playwright, browser, content, html_content, exc>>
                  ELSE FetchRaise(e)
          /\ UNCHANGED <<activations, click, control>>
    /\ UNCHANGED <<mainVars, launches, dataVars, dbVars>>

(* content = await page.content() *)
PageContent ==
    /\ pc = "content"
    /\ \/ /\ IsDocumentUpTo(content', MaxPageContainers)
          /\ pc' = "close"
          /\ UNCHANGED <<playwright, browser, fault, html_content, exc>>
       \/ \E e \in BrowserFaults : FetchRaise(e)
    /\ UNCHANGED <<mainVars, launches, pageVars, dataVars, dbVars>>

(* await browser.close(); return content *)
BrowserClose ==
    /\ pc = "close"
    /\ \/ /\ browser' = "closed"
          /\ playwright' = "stopped"
          /\ html_content' = content
          /\ content' = None
          /\ pc' = "fetched"
          /\ UNCHANGED <<exc, fault>>
       \/ \E e \in BrowserFaults : FetchRaise(e)
    /\ UNCHANGED <<mainVars, launches, pageVars, dataVars, dbVars>>

FetchDefaults ==
    /\ playwright = "none"
    /\ browser = "none"
    /\ launches = 0
    /\ control = FALSE
    /\ click = 0
    /\ activations = 0
    /\ presentCount = 0
    /\ missed = 0
    /\ fault = "none"
    /\ content = None
    /\ exc = "none"

DataDefaults ==
    /\ detail_data = None
    /\ df = <<>>
    /\ exported = {}

NoCall == [op |-> "none", ok |-> TRUE, arg |-> <<>>, prev |-> "none", n |-> 0]

(* no gateway built yet, the stored table holding the rows t *)
DbState(t) ==
    /\ session = "none"
    /\ pending = <<>>
    /\ table = t
    /\ insertCalls = 0
    /\ commits = 0
    /\ batches = <<>>
    /\ before = t
    /\ last = NoCall
    /\ readResult = <<>>

DbDefaults == DbState(<<>>)

(* a call fetch_content(url, n) on its own, for every n up to MaxClicks *)
InitFetch ==
    /\ pc = "launch"
    /\ category = "india"
    /\ num_clicks \in 0..MaxClicks
    /\ html_content = None
    /\ FetchDefaults
    /\ DataDefaults
    /\ DbDefaults

NextFetch ==
    \/ Launch
    \/ NewPage
    \/ Goto
    \/ WaitForSelector
    \/ Click
    \/ PageContent
    \/ BrowserClose

SpecFetch == InitFetch /\ [][NextFetch]_vars

(* every awaited primitive eventually returns or raises *)
SpecFetchFair == SpecFetch /\ WF_vars(NextFetch)

----------------------------------------------------------------------------
(* DatabaseManagerSettings *)

StorageFaults == {"OperationalError"}

(* what building a Model object or session.add raises on a row it refuses *)
AddFaults == {"TypeError"}

(* the objects built from the rows of the b-th insert_data call *)
Tagged(rows, b) == [i \in 1..Len(rows) |-> [row |-> rows[i], batch |-> b]]

(* flushing objects: one INSERT each, under the next autoincrement id *)
RECURSIVE StoreRows(_, _)
StoreRows(objs, stored) ==
    IF Len(objs) = 0 THEN stored
    ELSE StoreRows(Tail(objs),
                   Append(stored, [id |-> Len(stored) + 1,
                                   row |-> objs[1].row,
                                   batch |-> objs[1].batch]))

(* a session that was closed begins anew on its next use; one whose flush *)
(* failed refuses every statement until it is rolled back or closed       *)
Usable(s) == s \in {"open", "closed"}

(* a failed flush rolls the transaction back and expunges what was pending *)
AfterFailedFlush(objs) == <<>>

Call(op, ok, arg) ==
    [op |-> op, ok |-> ok, arg |-> arg,
     prev |-> IF last.ok THEN last.op ELSE "failed", n |-> last.n + 1]

(* insert_data(df, Model): add every row to the session, then commit once *)
insert_data(rows, pcReturn, pcRaise) ==
    LET b == insertCalls + 1
        objs == pending \o Tagged(rows, b)
    IN  /\ insertCalls' = b
        /\ before' = table
        /\ readResult' = readResult
        /\ \/ /\ Usable(session)
              /\ table' = StoreRows(objs, table)
              /\ pending' = <<>>
              /\ commits' = commits + 1
              /\ session' = "open"
              /\ batches' = Append(batches, [size |-> Len(rows), ok |-> TRUE])
              /\ last' = Call("insert", TRUE, rows)
              /\ pc' = pcReturn
              /\ exc' = exc
           \/ /\ \E j \in 1..Len(rows) :
                    pending' = pending \o Tagged(SubSeq(rows, 1, j - 1), b)
              /\ \E e \in AddFaults : exc' = e
              /\ UNCHANGED <<table, commits, session>>
              /\ batches' = Append(batches, [size |-> Len(rows), ok |-> FALSE])
              /\ last' = Call("insert", FALSE, rows)
              /\ pc' = pcRaise
           \/ /\ Usable(session)
              /\ Len(objs) > 0
              /\ \E e \in StorageFaults : exc' = e
              /\ pending' = AfterFailedFlush(objs)
              /\ session' = "failed"
              /\ commits' = commits + 1
              /\ table' = table
              /\ batches' = Append(batches, [size |-> Len(rows), ok |-> FALSE])
              /\ last' = Call("insert", FALSE, rows)
              /\ pc' = pcRaise
           \/ /\ session = "failed"
              /\ exc' = "PendingRollbackError"
              /\ pending' = objs
              /\ commits' = commits + 1
              /\ UNCHANGED <<table, session>>
              /\ batches' = Append(batches, [size |-> Len(rows), ok |-> FALSE])
              /\ last' = Call("insert", FALSE, rows)
              /\ pc' = pcRaise

(* main: db_manager_settings.insert_data(df, Inshorts) *)
InsertData ==
    /\ pc = "insert_data"
    /\ insert_data(df, "close_connection", "raised")
    /\ UNCHANGED <<mainVars, browserVars, html_content, dataVars>>

(* close_connection(): self.session.close() *)
close_connection(pcReturn) ==
    /\ session' = "closed"
    /\ pending' = <<>>
    /\ last' = Call("close", TRUE, <<>>)
    /\ pc' = pcReturn
    /\ UNCHANGED <<table, insertCalls, commits, batches, before, readResult, exc>>

(* main: db_manager_settings.close_connection() *)
CloseConnection ==
    /\ pc = "close_connection"
    /\ close_connection("done")
    /\ UNCHANGED <<mainVars, browserVars, html_content, dataVars>>

(* filter conditions a caller may hand to read_data, on the category column *)
NoCondition == [op |-> "none", value |-> <<>>]
Condition(op, v) == [op |-> op, value |-> v]
Conditions ==
    {NoCondition, Condition("==", <<"n">>), Condition("!=", <<"n">>),
     Condition("<", <<"n">>)}

(* `if conditions:` -- None is false; an == or != expression answers by    *)
(* comparing the hashes of its two sides, which differ; any other operator *)
(* has no boolean value                                                    *)
ConditionTruth(c) ==
    IF c.op = "none" THEN Returned(FALSE)
    ELSE IF c.op = "==" THEN Returned(FALSE)
    ELSE IF c.op = "!=" THEN Returned(TRUE)
    ELSE Raised("TypeError")

Matches(r, c) ==
    IF c.op = "==" THEN r.row.category = c.value
    ELSE IF c.op = "!=" THEN r.row.category # c.value
    ELSE TRUE

(* query.filter(conditions) when given; pd.read_sql over the engine, which *)
(* sees the committed rows                                                 *)
read_data(stored, c) ==
    LET t == ConditionTruth(c)
    IN  IF t.raised # "none" THEN t
        ELSE IF t.value THEN Returned(SelectSeq(stored, LAMBDA r : Matches(r, c)))
        ELSE Returned(stored)

(* column values a caller may hand to update_data *)
Updates ==
    {[column |-> "category", value |-> <<"z">>],
     [column |-> "date", value |-> <<"d", "0">>]}

(* mutant: only the first row is assigned *)
AssignFirstOnly(stored, u) ==
    [i \in 1..Len(stored) |->
        IF i = 1 THEN [stored[i] EXCEPT !.row[u.column] = u.value] ELSE stored[i]]

(* query(model).update(updates): no filter, every row is assigned *)
Assign(stored, u) ==
    [i \in 1..Len(stored) |-> [stored[i] EXCEPT !.row[u.column] = u.value]]

(* mutant: the pending objects are flushed by the commit, after the DELETE *)
DeleteThenFlush(stored, objs) == StoreRows(objs, <<>>)

(* query(model).delete(): pending objects are flushed first, then every row goes *)
DeleteAll(stored, objs) == <<>>

(* update_data(model, updates): UPDATE over every row, then commit *)
update_data(u) ==
    /\ before' = table
    /\ UNCHANGED <<insertCalls, batches, readResult, pc>>
    /\ \/ /\ Usable(session)
          /\ table' = Assign(StoreRows(pending, table), u)
          /\ pending' = <<>>
          /\ commits' = commits + 1
          /\ session' = "open"
          /\ last' = Call("update", TRUE, <<u>>)
          /\ exc' = exc
       \/ /\ Usable(session)
          /\ Len(pending) > 0
          /\ \E e \in StorageFaults : exc' = e
          /\ pending' = AfterFailedFlush(pending)
          /\ session' = "failed"
          /\ last' = Call("update", FALSE, <<u>>)
          /\ UNCHANGED <<table, commits>>
       \/ /\ Usable(session)
          /\ Len(pending) = 0
          /\ \E e \in StorageFaults : exc' = e
          /\ session' = "open"
          /\ last' = Call("update", FALSE, <<u>>)
          /\ UNCHANGED <<table, commits, pending>>
       \/ /\ session = "failed"
          /\ exc' = "PendingRollbackError"
          /\ last' = Call("update", FALSE, <<u>>)
          /\ UNCHANGED <<table, commits, pending, session>>

(* delete_all_data(model): DELETE over every row, then commit *)
delete_all_data ==
    /\ before' = table
    /\ UNCHANGED <<insertCalls, batches, readResult, pc>>
    /\ \/ /\ Usable(session)
          /\ table' = DeleteAll(table, pending)
          /\ pending' = <<>>
          /\ commits' = commits + 1
          /\ session' = "open"
          /\ last' = Call("delete", TRUE, <<>>)
          /\ exc' = exc
       \/ /\ Usable(session)
          /\ Len(pending) > 0
          /\ \E e \in StorageFaults : exc' = e
          /\ pending' = AfterFailedFlush(pending)
          /\ session' = "failed"
          /\ last' = Call("delete", FALSE, <<>>)
          /\ UNCHANGED <<table, commits>>
       \/ /\ Usable(session)
          /\ Len(pending) = 0
          /\ \E e \in StorageFaults : exc' = e
          /\ session' = "open"
          /\ last' = Call("delete", FALSE, <<>>)
          /\ UNCHANGED <<table, commits, pending>>
       \/ /\ session = "failed"
          /\ exc' = "PendingRollbackError"
          /\ last' = Call("delete", FALSE, <<>>)
          /\ UNCHANGED <<table, commits, pending, session>>

(* rows a caller of the gateway may hand over *)
GatewayRow(i, cat) ==
    [category |-> cat, titles |-> Strip(TitleText(i)), date |-> DateText(i),
     descriptions |-> Strip(DescriptionText(i)), urls |-> Some(LinkTarget(i))]

(* the frames handed to insert_data: up to k rows, rows of one category *)
(* first, rows of another after them, equal rows included               *)
Frames(k) ==
    {Repeat(GatewayRow(1, <<"n">>), m) \o Repeat(GatewayRow(2, <<"s">>), n - m) :
        <<n, m>> \in {p \in (0..k) \X (0..k) : p[2] <= p[1]}}

(* what the table may hold before the gateway is built *)
PriorRow == [id |-> 1, row |-> GatewayRow(0, <<"n">>), batch |-> 0]
InitialTables == {<<>>, <<PriorRow>>}

GwInsert ==
    /\ pc = "gateway"
    /\ last.n < MaxCalls
    /\ \E rows \in Frames(MaxBatch) : insert_data(rows, "gateway", "gateway")
    /\ UNCHANGED <<mainVars, browserVars, html_content, dataVars>>

GwRead ==
    /\ pc = "gateway"
    /\ last.n < MaxCalls
    /\ \E c \in Conditions :
          LET r == read_data(table, c)
          IN  /\ last' = Call("read", r.raised = "none", <<c>>)
              /\ IF r.raised = "none"
                   THEN readResult' = r.value /\ exc' = exc
                   ELSE readResult' = readResult /\ exc' = r.raised
    /\ UNCHANGED <<mainVars, browserVars, html_content, dataVars, pc, session,
                   pending, table, insertCalls, commits, batches, before>>

GwUpdate ==
    /\ pc = "gateway"
    /\ last.n < MaxCalls
    /\ \E u \in Updates : update_data(u)
    /\ UNCHANGED <<mainVars, browserVars, html_content, dataVars>>

GwDelete ==
    /\ pc = "gateway"
    /\ last.n < MaxCalls
    /\ delete_all_data
    /\ UNCHANGED <<mainVars, browserVars, html_content, dataVars>>

GwClose ==
    /\ pc = "gateway"
    /\ last.n < MaxCalls
    /\ close_connection("gateway")
    /\ UNCHANGED <<mainVars, browserVars, html_content, dataVars>>

(* a gateway just built over a table that may already hold a row *)
InitGateway ==
    /\ pc = "gateway"
    /\ category = ""
    /\ num_clicks = 0
    /\ html_content = None
    /\ FetchDefaults
    /\ DataDefaults
    /\ \E t \in InitialTables :
          /\ session = "open"
          /\ pending = <<>>
          /\ table = t
          /\ insertCalls = 0
          /\ commits = 0
          /\ batches = <<>>
          /\ before = t
          /\ last = NoCall
          /\ readResult = <<>>

NextGateway ==
    \/ GwInsert
    \/ GwRead
    \/ GwUpdate
    \/ GwDelete
    \/ GwClose

SpecGateway == InitGateway /\ [][NextGateway]_vars

----------------------------------------------------------------------------
(* main *)

category_urls ==
    {"india", "business", "politics", "sports", "technology", "startups",
     "entertainment", "hatke", "international", "automobile", "science",
     "travel", "miscellaneous"}

(* what a user may type at the prompt *)
TypedKeys == {"india", "sports", "cricket"}

(* mutant: an unknown key falls back to a registered one, as dict.get would *)
UrlForDefault(key) == Returned(IF key \in category_urls THEN key ELSE "india")

(* category_urls[category]: subscripting with an unknown key raises *)
UrlFor(key) == IF key \in category_urls THEN Returned(key) ELSE Raised("KeyError")

(* category = input(...); url = category_urls[category]; num_clicks = 10 *)
Input ==
    /\ pc = "input"
    /\ category' \in TypedKeys
    /\ IF UrlFor(category').raised = "none"
         THEN /\ num_clicks' = NumClicks
              /\ pc' = "launch"
              /\ exc' = exc
         ELSE /\ num_clicks' = num_clicks
              /\ pc' = "raised"
              /\ exc' = UrlFor(category').raised
    /\ UNCHANGED <<browserVars, html_content,
                   dataVars, dbVars>>

(* detail_data = await parse_content(html_content) *)
ParseContent ==
    /\ pc = "fetched"
    /\ LET r == parse_content(html_content)
       IN  IF r.raised # "none"
             THEN /\ pc' = "raised"
                  /\ exc' = r.raised
                  /\ detail_data' = detail_data
             ELSE /\ pc' = "dataframe"
                  /\ exc' = exc
                  /\ detail_data' = r.value
    /\ UNCHANGED <<mainVars, browserVars, html_content, df, exported, dbVars>>

Columns == {"category", "titles", "date", "descriptions", "urls"}

(* mutant: None becomes a frame of one row of missing values *)
DataFrameOfNoneHasRow(dd) ==
    IF IsNone(dd) THEN Returned(<<[c \in Columns |-> None]>>)
    ELSE LET d == Get(dd)
         IN  IF \E a, b \in Columns : Len(d[a]) # Len(d[b])
               THEN Raised("ValueError")
               ELSE Returned([i \in 1..Len(d.titles) |->
                                [c \in Columns |-> d[c][i]]])

(* mutant: lists of unequal length are cut to the shortest *)
DataFrameTruncates(dd) ==
    IF IsNone(dd) THEN Returned(<<>>)
    ELSE LET d == Get(dd)
             n == CHOOSE k \in 0..MaxContainers :
                     /\ \A c \in Columns : k <= Len(d[c])
                     /\ \E c \in Columns : k = Len(d[c])
         IN  Returned([i \in 1..n |-> [c \in Columns |-> d[c][i]]])

(* pd.DataFrame(detail_data): None gives the empty frame, a dictionary of *)
(* lists gives one row per index, lists of unequal length are refused     *)
DataFrame(dd) ==
    IF IsNone(dd) THEN Returned(<<>>)
    ELSE LET d == Get(dd)
         IN  IF \E a, b \in Columns : Len(d[a]) # Len(d[b])
               THEN Raised("ValueError")
               ELSE Returned([i \in 1..Len(d.titles) |->
                                [c \in Columns |-> d[c][i]]])

(* df = pd.DataFrame(detail_data); print(df) *)
MakeDataFrame ==
    /\ pc = "dataframe"
    /\ LET r == DataFrame(detail_data)
       IN  IF r.raised # "none"
             THEN /\ pc' = "raised"
                  /\ exc' = r.raised
                  /\ df' = df
             ELSE /\ pc' = "to_csv"
                  /\ exc' = exc
                  /\ df' = r.value
    /\ UNCHANGED <<mainVars, browserVars, html_content, detail_data, exported, dbVars>>

FileFaults == {"OSError"}

(* df.to_csv(...) *)
ToCsv ==
    /\ pc = "to_csv"
    /\ \/ /\ exported' = exported \cup {"csv"}
          /\ pc' = "to_json"
          /\ exc' = exc
       \/ /\ \E e \in FileFaults : exc' = e
          /\ pc' = "raised"
          /\ exported' = exported
    /\ UNCHANGED <<mainVars, browserVars, html_content, detail_data, df, dbVars>>

(* df.to_json(...) *)
ToJson ==
    /\ pc = "to_json"
    /\ \/ /\ exported' = exported \cup {"json"}
          /\ pc' = "db_init"
          /\ exc' = exc
       \/ /\ \E e \in FileFaults : exc' = e
          /\ pc' = "raised"
          /\ exported' = exported
    /\ UNCHANGED <<mainVars, browserVars, html_content, detail_data, df, dbVars>>

(* db_manager_settings = DatabaseManagerSettings() *)
DbInit ==
    /\ pc = "db_init"
    /\ \/ /\ session' = "open"
          /\ pc' = "insert_data"
          /\ exc' = exc
       \/ /\ exc' = "ArgumentError"
          /\ pc' = "raised"
          /\ session' = session
    /\ UNCHANGED <<mainVars, browserVars, html_content, dataVars, pending, table,
                   insertCalls, commits, batches, before, last, readResult>>

Init ==
    /\ pc = "input"
    /\ category = ""
    /\ num_clicks = 0
    /\ html_content = None
    /\ FetchDefaults
    /\ DataDefaults
    /\ \E t \in InitialTables : DbState(t)

Next ==
    \/ Input
    \/ Launch
    \/ NewPage
    \/ Goto
    \/ WaitForSelector
    \/ Click
    \/ PageContent
    \/ BrowserClose
    \/ ParseContent
    \/ MakeDataFrame
    \/ ToCsv
    \/ ToJson
    \/ DbInit
    \/ InsertData
    \/ CloseConnection

Spec == Init /\ [][Next]_vars

(* a call parse_content(html_content) on its own, for every document *)
InitParse ==
    /\ pc = "fetched"
    /\ category = "india"
    /\ num_clicks = NumClicks
    /\ (html_content = None \/ IsDocumentUpTo(html_content, MaxContainers))
    /\ FetchDefaults
    /\ DataDefaults
    /\ DbDefaults

NextParse == ParseContent

SpecParse == InitParse /\ [][NextParse]_vars

----------------------------------------------------------------------------
(* Properties of fetch_content, checked under SpecFetch *)

FetchEnded == pc \in {"fetched", "raised"}

(* C1: for every requested count n the page receives at most n clicks, and *)
(* it receives n only if the control was present at each of n iterations.  *)
C1_ClicksBounded ==
    /\ activations <= num_clicks
    /\ activations = num_clicks => presentCount = num_clicks

C1_Witness ==
    /\ pc = "fetched"
    /\ num_clicks >= 2
    /\ activations = num_clicks

(* C2: a control found absent at some iteration ends the loop and the call *)
(* still succeeds: a document is captured and returned, nothing is raised. *)
C2_AbsentControlSucceeds ==
    missed > 0 =>
        /\ pc # "raised"
        /\ exc = "none"
        /\ FetchEnded => ~IsNone(html_content)

(* C3: one browser per call, and no call ends, by return or by exception, *)
(* with its browser still open.                                           *)
C3_SessionClosed ==
    /\ launches <= 1
    /\ browser = "open" => playwright = "active"
    /\ FetchEnded => browser # "open" /\ playwright # "active"

C3_Witness ==
    /\ pc = "raised"
    /\ launches = 1
    /\ browser = "closed"
    /\ fault = "Error"
    /\ activations >= 1

(* C4: a fault of a browser primitive other than the absent control is    *)
(* never swallowed: the call raises it and returns no document.           *)
C4_FaultPropagates ==
    (fault # "none" /\ missed = 0) =>
        /\ pc = "raised"
        /\ exc = fault
        /\ IsNone(html_content)
        /\ IsNone(content)

C4_Witness ==
    /\ pc = "raised"
    /\ exc = "Error"
    /\ missed = 0
    /\ browser = "closed"
    /\ click = num_clicks
    /\ num_clicks >= 1

----------------------------------------------------------------------------
(* Properties of parse_content, checked under SpecParse *)

Parsed == pc = "dataframe"

HasDocument == ~IsNone(html_content)
Doc == Get(html_content)
Articles == 1..Len(Doc.containers)
Result == Get(detail_data)

NonBlank(node) == node.present /\ \E i \in 1..Len(node.text) : node.text[i] \notin Whitespace

(* the text of a node without its surrounding whitespace, None if blank or missing *)
Trimmed(node) == IF NonBlank(node) THEN Some(Strip(node.text)) ELSE None

(* the link target of an anchor, None if there is none *)
Target(anchor) == IF anchor.present /\ anchor.hasHref THEN Some(anchor.href) ELSE None

(* the part of a link target after its last "/" *)
LastSegment(h) ==
    LET cut == IF \E i \in 1..Len(h) : h[i] = "/"
                 THEN CHOOSE i \in 1..Len(h) :
                          h[i] = "/" /\ \A j \in (i + 1)..Len(h) : h[j] # "/"
                 ELSE 0
    IN  SubSeq(h, cut + 1, Len(h))

EmptyRecordSet ==
    [category |-> <<>>, titles |-> <<>>, date |-> <<>>, descriptions |-> <<>>,
     urls |-> <<>>]

WellFormed(doc) ==
    /\ ~IsNone(Target(doc.marker))
    /\ \A i \in 1..Len(doc.containers) :
          /\ NonBlank(doc.containers[i].title)
          /\ NonBlank(doc.containers[i].description)

(* C6: for a document with a category marker whose containers all hold a  *)
(* title and a description, as many records come back as there are        *)
(* containers, each with a non-blank title and description.               *)
C6_RecordPerContainer ==
    (Parsed /\ HasDocument /\ WellFormed(Doc)) =>
        /\ ~IsNone(detail_data)
        /\ Len(Result.titles) = Len(Doc.containers)
        /\ Len(Result.descriptions) = Len(Doc.containers)
        /\ Len(Result.urls) = Len(Doc.containers)
        /\ Len(Result.category) = Len(Doc.containers)
        /\ \A i \in Articles :
              /\ Truthy(Strip(Result.titles[i]))
              /\ Truthy(Strip(Result.descriptions[i]))

(* C7: the fields of record i all come from container i; a blank or       *)
(* missing field is a missing value in its own slot and shifts nothing.   *)
C7_FieldsFromSameContainer ==
    (Parsed /\ HasDocument /\ ~IsNone(detail_data)) =>
        /\ \A i \in 1..Len(Result.titles) :
              i \in Articles /\ Some(Result.titles[i]) = Trimmed(Doc.containers[i].title)
        /\ \A i \in 1..Len(Result.date) :
              i \in Articles /\ Some(Result.date[i]) = Trimmed(Doc.containers[i].date)
        /\ \A i \in 1..Len(Result.descriptions) :
              i \in Articles
                /\ Some(Result.descriptions[i]) = Trimmed(Doc.containers[i].description)
        /\ \A i \in 1..Len(Result.urls) :
              i \in Articles /\ Result.urls[i] = Target(Doc.containers[i].anchor)

(* C8: one url per container, in document order: the link target of the  *)
(* container's anchor, None when it has none.                             *)
C8_UrlPerContainer ==
    (Parsed /\ HasDocument /\ ~IsNone(Target(Doc.marker))) =>
        /\ ~IsNone(detail_data)
        /\ Len(Result.urls) = Len(Doc.containers)
        /\ \A i \in Articles : Result.urls[i] = Target(Doc.containers[i].anchor)

(* C9: in a result that is not None every category entry is the last     *)
(* path segment of the marker's link target, and there are as many        *)
(* entries as non-blank titles.                                           *)
C9_CategoryUniform ==
    (Parsed /\ ~IsNone(detail_data)) =>
        /\ Len(Result.category) = Len(Result.titles)
        /\ Len(Result.category) =
              Cardinality({i \in Articles : NonBlank(Doc.containers[i].title)})
        /\ \A i \in 1..Len(Result.category) :
              Result.category[i] = LastSegment(Doc.marker.href)
        /\ \A i, j \in 1..Len(Result.category) :
              Result.category[i] = Result.category[j]

C9_Witness ==
    /\ Parsed
    /\ ~IsNone(detail_data)
    /\ Len(Result.category) = 2
    /\ Result.category[2] = <<"n">>

----------------------------------------------------------------------------
(* Properties of main, checked under Spec *)

(* parse_content has returned to main *)
Extracted ==
    \/ pc \in {"dataframe", "to_csv", "to_json", "db_init", "insert_data",
               "close_connection", "done"}
    \/ pc = "raised" /\ exc \in {"ValueError", "OSError", "ArgumentError"}
                                    \cup StorageFaults \cup AddFaults

(* C10: when parse_content returns None or the empty record set, main     *)
(* never calls insert_data and no commit is issued.                       *)
C10_NoWriteWithoutRecords ==
    (Extracted /\ (IsNone(detail_data) \/ detail_data = Some(EmptyRecordSet))) =>
        /\ insertCalls = 0
        /\ commits = 0

(* fetch_content raised into main *)
ExpansionFailed == pc = "raised" /\ exc \in BrowserFaults \cup {"TimeoutError"}

(* parse_content returned None to main *)
ExtractionFailed == Extracted /\ IsNone(detail_data)

(* C11: in every run in which fetch_content raises or parse_content returns *)
(* None, the stored table holds at every later point of the run, its end    *)
(* included, the rows it held when the run began.                           *)
C11_TableUnchanged == (ExpansionFailed \/ ExtractionFailed) => table = before

C11_Witness ==
    /\ pc = "done"
    /\ IsNone(detail_data)
    /\ insertCalls = 1
    /\ Len(table) > 0

(* C15: every run that built the gateway ends with its session closed, on *)
(* the success path and on every failure path.                            *)
C15_ClosedOnEveryPath ==
    (pc \in {"done", "raised"} /\ session # "none") => session = "closed"

(* C16: a key that is not in category_urls ends the run with KeyError       *)
(* before any browser is launched, any page clicked, any file exported and  *)
(* any storage operation made.                                              *)
C16_UnknownKeyFailsFirst ==
    (pc # "input" /\ category \notin category_urls) =>
        /\ pc = "raised"
        /\ exc = "KeyError"
        /\ launches = 0
        /\ playwright = "none"
        /\ browser = "none"
        /\ activations = 0
        /\ exported = {}
        /\ session = "none"
        /\ insertCalls = 0
        /\ commits = 0
        /\ table = before

C16_Witness == pc = "raised" /\ category = "cricket" /\ exc = "KeyError"

(* the lists parse_content returned do not all have the same length *)
Ragged ==
    /\ ~IsNone(detail_data)
    /\ \E a, b \in Columns : Len(Get(detail_data)[a]) # Len(Get(detail_data)[b])

(* C20: when the lists returned by parse_content differ in length, the run  *)
(* stops with ValueError at pd.DataFrame: nothing is exported, the gateway  *)
(* is not built, insert_data is not called and the table keeps its rows.    *)
C20_RaggedAbortsBeforeWrites ==
    (Extracted /\ Ragged) =>
        /\ pc \in {"dataframe", "raised"}
        /\ pc = "raised" => exc = "ValueError"
        /\ exported = {}
        /\ session = "none"
        /\ insertCalls = 0
        /\ table = before

C20_Witness == pc = "raised" /\ exc = "ValueError" /\ Ragged

----------------------------------------------------------------------------
(* Termination of fetch_content, checked under SpecFetchFair *)

(* C18: every call of fetch_content reaches a terminal state, returned or *)
(* raised, with the browser no longer open.                               *)
C18_Terminates == <>(FetchEnded /\ browser # "open" /\ playwright # "active")

C18_Witness == pc = "fetched" /\ activations = 2 /\ browser = "closed"

----------------------------------------------------------------------------
(* Properties of the gateway, checked under SpecGateway *)

(* the stored rows that came from the b-th insert_data call *)
RowsOf(b) == {i \in 1..Len(table) : table[i].batch = b}

(* C12: of the k rows of any insert_data call a reader sees all or none. *)
C12_AllOrNone ==
    \A b \in 1..Len(batches) : Cardinality(RowsOf(b)) \in {0, batches[b].size}

(* C13: a successful insert_data appends one row per input record, in *)
(* order, equal records included, and leaves the rows stored before   *)
(* the call as they were.                                             *)
C13_InsertAppends ==
    (last.op = "insert" /\ last.ok) =>
        /\ Len(table) = Len(before) + Len(last.arg)
        /\ SubSeq(table, 1, Len(before)) = before
        /\ \A i \in 1..Len(last.arg) :
              Len(before) + i <= Len(table) =>
                  table[Len(before) + i].row = last.arg[i]

DeletedThenReadAll ==
    /\ last.op = "read"
    /\ last.ok
    /\ last.arg = <<NoCondition>>
    /\ last.prev = "delete"

(* C14: read_data with no conditions right after a successful *)
(* delete_all_data returns no row, whatever was stored before. *)
C14_DeleteThenReadEmpty == DeletedThenReadAll => readResult = <<>>

C14_Witness == DeletedThenReadAll /\ Len(before) > 0

(* a predicate a caller may mean: the rows of category "n" *)
SamplePredicate == Condition("==", <<"n">>)

(* C17: after update_data every row the predicate does not select is as *)
(* it was before the call.                                              *)
C17_UnselectedUnchanged ==
    (last.op = "update" /\ last.ok) =>
        \A i \in 1..Len(before) :
            (i <= Len(table) /\ ~Matches(before[i], SamplePredicate)) =>
                table[i] = before[i]

(* C17 as amended: update_data takes no predicate; a successful call sets   *)
(* the given column in every row of the table, keeps the id and every other *)
(* column of the rows stored before it, and commits once.                   *)
C17_AssignsEveryRow ==
    [][(last'.n # last.n /\ last'.op = "update" /\ last'.ok) =>
          LET u == last'.arg[1]
          IN  /\ commits' = commits + 1
              /\ Len(table') >= Len(table)
              /\ \A i \in 1..Len(table') : table'[i].row[u.column] = u.value
              /\ \A i \in 1..Len(table) :
                    /\ table'[i].id = table[i].id
                    /\ \A c \in Columns \ {u.column} :
                          table'[i].row[c] = table[i].row[c]]_vars

C17_Witness ==
    /\ last.op = "update"
    /\ last.ok
    /\ Len(before) >= 2
    /\ \E i \in 1..Len(before) : before[i].row.category = <<"s">>

(* C19: no row of an insert_data call that raised is ever stored. *)
C19_NoResidue ==
    \A i \in 1..Len(table) : table[i].batch = 0 \/ batches[table[i].batch].ok

====
